---------------------------- MODULE Spec2Model ----------------------------
(***************************************************************************)
(* Print/alert state and command queue of a Printer                        *)
(* (src/web/app/models.py: Printer, PrinterCommand).                       *)
(*                                                                         *)
(* The persisted tables are `printers` (one row per Printer) and           *)
(* `commands` (PrinterCommand rows in creation order).  A caller works on  *)
(* an in-memory copy of a Printer row (`self`); self.save() writes every   *)
(* column of the copy back.  Every method of Printer is translated to the  *)
(* sequence of statements it executes; Spec runs a method as one step of   *)
(* a single caller, SpecConc runs two callers statement by statement.      *)
(***************************************************************************)
EXTENDS Integers, Sequences, FiniteSets, TLC

\* ------------------------------------------------------------------ bounds
\* Rows the PrinterCommand table may hold; calls begun in SpecConc.
MaxCmds == 4
MaxCalls == 3
\* Bound on the commands in the specification of two Printers.
MaxIso == 2

\* --------------------------------------------------------------- constants
Printers == {"A", "B"}
\* The Printer the callers of Spec and SpecConc work on.
Targets == {"A"}
Actors == {1, 2}
Filenames == {"a.gcode", "b.gcode"}
NoFile == "None"
Null == 0

PENDING == "PENDING"
SENT == "SENT"
ABORTED == "ABORTED"

NoArgs == "{}"
ToolsOff == "heater=tools,target=0,save=True"
BedOff == "heater=bed,target=0,save=True"

\* ------------------------------------------------------------------- state
VARIABLES printers,   \* the Printer table: one row per Printer id
          commands,   \* the PrinterCommand table, in creation order
          th,         \* the callers of SpecConc: copy held, statements left
          base,       \* the Printer table when the current round of calls began
          ncalls      \* calls begun in SpecConc

vars == <<printers, commands, th, base, ncalls>>

\* The four print/alert fields of a Printer row.
PrintFields == {"current_print_filename", "current_print_started_at",
                "current_print_alerted_at", "alert_acknowledged_at"}

NewPrinter(tools, bed) ==
    [current_print_filename |-> NoFile,
     current_print_started_at |-> Null,
     current_print_alerted_at |-> Null,
     alert_acknowledged_at |-> Null,
     tools_off_on_pause |-> tools,
     bed_off_on_pause |-> bed]

PrinterCommand(id, command, args, status) ==
    [printer |-> id, cmd |-> command, args |-> args, status |-> status]

\* ---------------------------------------------------------------- the clock
Stamps(row) == {row.current_print_started_at, row.current_print_alerted_at,
                row.alert_acknowledged_at} \ {Null}

MaxStamp == 3 * (Cardinality(Printers) + Cardinality(Actors)) + 1

\* datetime.now(timezone.utc): an instant later than every stored one.  The
\* program only stores instants and tests them for None, so an instant is
\* represented by the least positive integer no row or copy holds.
Now(m, others) ==
    LET used == UNION ({Stamps(m.printers[p]) : p \in Printers}
                       \cup {Stamps(m.self), others})
    IN CHOOSE t \in 1..MaxStamp :
          t \notin used /\ \A u \in 1..(t - 1) : u \in used

\* -------------------------------------------------------------- statements
SetField(f, v) == [k |-> "set", f |-> f, v |-> v, file |-> NoFile]
SetFile(name) == [k |-> "set", f |-> "current_print_filename", v |-> "file", file |-> name]
SaveStmt == [k |-> "save"]
AbortStmt == [k |-> "abort"]
CreateStmt(command, args, abort_existing) ==
    [k |-> "create", cmd |-> command, args |-> args, abort_existing |-> abort_existing]

IsDb(st) == st.k \in {"save", "abort", "create"}

Value(m, st, others) ==
    IF st.v = "now" THEN Now(m, others) ELSE Null

\* The bulk update with no status filter: every command of the Printer
\* becomes ABORTED.
AbortExisting_any_status(cmds, id) ==
    [i \in 1..Len(cmds) |->
        IF cmds[i].printer = id
        THEN [cmds[i] EXCEPT !.status = ABORTED]
        ELSE cmds[i]]

\* The bulk update with no printer filter: every PENDING command of every
\* Printer becomes ABORTED.
AbortExisting_any_printer(cmds, id) ==
    [i \in 1..Len(cmds) |->
        IF cmds[i].status = PENDING
        THEN [cmds[i] EXCEPT !.status = ABORTED]
        ELSE cmds[i]]

\* PrinterCommand.objects.filter(printer=self, status=PENDING)
\*     .update(status=ABORTED)
AbortExisting(cmds, id) ==
    [i \in 1..Len(cmds) |->
        IF cmds[i].printer = id /\ cmds[i].status = PENDING
        THEN [cmds[i] EXCEPT !.status = ABORTED]
        ELSE cmds[i]]

\* Effect of one statement of a method running on Printer `id`;
\* m = [printers, commands, self].
Exec(m, st, id, others) ==
    CASE st.k = "set" ->
           IF st.v = "file"
           THEN [m EXCEPT !.self.current_print_filename = st.file]
           ELSE [m EXCEPT !.self = [m.self EXCEPT ![st.f] = Value(m, st, others)]]
      [] st.k = "save" ->
           [m EXCEPT !.printers[id] = m.self]
      [] st.k = "abort" ->
           [m EXCEPT !.commands = AbortExisting(m.commands, id)]
      [] st.k = "create" ->
           [m EXCEPT !.commands =
               Append(m.commands, PrinterCommand(id, st.cmd, st.args, PENDING))]

\* Statements i..j of prog, in order.
RECURSIVE Run(_, _, _, _, _, _)
Run(m, prog, i, j, id, others) ==
    IF i > j THEN m
    ELSE Run(Exec(m, prog[i], id, others), prog, i + 1, j, id, others)


\* ----------------------------------------------------------------- methods
\* Each method is the sequence of statements it executes on the copy `self`
\* it is called on (its conditions read only fields of `self` that no earlier
\* statement of the same method has assigned).

\* queue_octoprint_command aborting whatever its flag.
queue_octoprint_command_always_aborts(command, args, abort_existing) ==
    <<AbortStmt, CreateStmt(command, args, abort_existing)>>

queue_octoprint_command(command, args, abort_existing) ==
    (IF abort_existing THEN <<AbortStmt>> ELSE <<>>)
    \o <<CreateStmt(command, args, abort_existing)>>

\* set_current_print without its reset of the alert fields.
set_current_print_keeps_alert(self, filename) ==
    IF filename # self.current_print_filename
    THEN <<SetFile(filename),
           SetField("current_print_started_at", "now"),
           SaveStmt>>
    ELSE <<>>

\* set_current_print without the comparison of filenames.
set_current_print_unconditional(self, filename) ==
    <<SetFile(filename),
      SetField("current_print_started_at", "now"),
      SetField("current_print_alerted_at", "null"),
      SetField("alert_acknowledged_at", "null"),
      SaveStmt>>

\* set_current_print without its assignment of current_print_started_at.
set_current_print_no_started_at(self, filename) ==
    IF filename # self.current_print_filename
    THEN <<SetFile(filename),
           SetField("current_print_alerted_at", "null"),
           SetField("alert_acknowledged_at", "null"),
           SaveStmt>>
    ELSE <<>>

set_current_print(self, filename) ==
    IF filename # self.current_print_filename
    THEN <<SetFile(filename),
           SetField("current_print_started_at", "now"),
           SetField("current_print_alerted_at", "null"),
           SetField("alert_acknowledged_at", "null"),
           SaveStmt>>
    ELSE <<>>

\* unset_current_print without its reset of the alert fields.
unset_current_print_keeps_alert(self) ==
    IF self.current_print_filename # NoFile
    THEN <<SetFile(NoFile),
           SetField("current_print_started_at", "null"),
           SaveStmt>>
    ELSE <<>>

unset_current_print(self) ==
    IF self.current_print_filename # NoFile
    THEN <<SetFile(NoFile),
           SetField("current_print_started_at", "null"),
           SetField("current_print_alerted_at", "null"),
           SetField("alert_acknowledged_at", "null"),
           SaveStmt>>
    ELSE <<>>

\* set_alert without its reset of alert_acknowledged_at.
set_alert_keeps_ack ==
    <<SetField("current_print_alerted_at", "now"), SaveStmt>>

set_alert ==
    <<SetField("current_print_alerted_at", "now"),
      SetField("alert_acknowledged_at", "null"),
      SaveStmt>>

clear_alert ==
    <<SetField("current_print_alerted_at", "null"),
      SetField("alert_acknowledged_at", "now"),
      SaveStmt>>

\* resume_print clearing the alert whether or not it is muted.
resume_print_ignores_mute(mute_alert) ==
    <<SetField("alert_acknowledged_at", "now"), SaveStmt>>
    \o clear_alert
    \o queue_octoprint_command("restore_temps", NoArgs, TRUE)
    \o queue_octoprint_command("resume", NoArgs, FALSE)

resume_print(mute_alert) ==
    <<SetField("alert_acknowledged_at", "now"), SaveStmt>>
    \o (IF ~mute_alert THEN clear_alert ELSE <<>>)
    \o queue_octoprint_command("restore_temps", NoArgs, TRUE)
    \o queue_octoprint_command("resume", NoArgs, FALSE)

\* pause_print enqueueing without aborting.
pause_print_stacking ==
    queue_octoprint_command("pause", NoArgs, FALSE)

pause_print ==
    queue_octoprint_command("pause", NoArgs, TRUE)

\* pause_print_on_failure whose set_temps enqueues keep the default
\* abort_existing=True.
pause_print_on_failure_default_flag(self) ==
    queue_octoprint_command("pause", NoArgs, TRUE)
    \o (IF self.tools_off_on_pause
        THEN queue_octoprint_command("set_temps", ToolsOff, TRUE) ELSE <<>>)
    \o (IF self.bed_off_on_pause
        THEN queue_octoprint_command("set_temps", BedOff, TRUE) ELSE <<>>)

pause_print_on_failure(self) ==
    queue_octoprint_command("pause", NoArgs, TRUE)
    \o (IF self.tools_off_on_pause
        THEN queue_octoprint_command("set_temps", ToolsOff, FALSE) ELSE <<>>)
    \o (IF self.bed_off_on_pause
        THEN queue_octoprint_command("set_temps", BedOff, FALSE) ELSE <<>>)

\* cancel_print clearing the alert as clear_alert does.
cancel_print_clears_alert ==
    clear_alert \o queue_octoprint_command("cancel", NoArgs, TRUE)

\* cancel_print without the acknowledgment.
cancel_print_no_ack ==
    queue_octoprint_command("cancel", NoArgs, TRUE)

cancel_print ==
    <<SetField("alert_acknowledged_at", "now"), SaveStmt>>
    \o queue_octoprint_command("cancel", NoArgs, TRUE)

\* --------------------------------------------------------------- the calls
Ops == {"set_current_print", "unset_current_print", "resume_print",
        "pause_print", "pause_print_on_failure", "cancel_print",
        "set_alert", "clear_alert"}

Call(op, filename, mute_alert) ==
    [op |-> op, filename |-> filename, mute_alert |-> mute_alert]

Calls ==
    {Call("set_current_print", f, FALSE) : f \in Filenames \cup {NoFile}}
    \cup {Call("resume_print", NoFile, b) : b \in BOOLEAN}
    \cup {Call(o, NoFile, FALSE) :
            o \in Ops \ {"set_current_print", "resume_print"}}

\* The statements of call c on the copy self.
Prog(c, self) ==
    CASE c.op = "set_current_print" -> set_current_print(self, c.filename)
      [] c.op = "unset_current_print" -> unset_current_print(self)
      [] c.op = "resume_print" -> resume_print(c.mute_alert)
      [] c.op = "pause_print" -> pause_print
      [] c.op = "pause_print_on_failure" -> pause_print_on_failure(self)
      [] c.op = "cancel_print" -> cancel_print
      [] c.op = "set_alert" -> set_alert
      [] c.op = "clear_alert" -> clear_alert

Creates(prog) == Cardinality({i \in 1..Len(prog) : prog[i].k = "create"})

Idle == [st |-> "idle", pc |-> 0, id |-> "A", self |-> NewPrinter(FALSE, FALSE),
         prog |-> <<>>, call |-> Call("none", NoFile, FALSE), made |-> <<>>]

\* tools_off_on_pause defaults to True, bed_off_on_pause to False; the owner
\* of a Printer may have set either.
Init ==
    /\ printers \in {f \in [Printers -> {NewPrinter(t, b) : t \in BOOLEAN, b \in BOOLEAN}] :
                       \A p \in Printers \ Targets : f[p] = NewPrinter(TRUE, FALSE)}
    /\ commands = <<>>
    /\ th = [a \in Actors |-> Idle]
    /\ base = printers
    /\ ncalls = 0

\* ------------------------------------------------- one caller, whole methods
\* Printer.objects.get(id), then statements 1..n of the method, on the
\* tables t = [printers, commands].
Called(t, id, c, n) ==
    LET self == t.printers[id]
        m == Run([printers |-> t.printers, commands |-> t.commands, self |-> self],
                 Prog(c, self), 1, n, id, {})
    IN [printers |-> m.printers, commands |-> m.commands]

\* The call run to its return.
Returned(t, id, c) == Called(t, id, c, Len(Prog(c, t.printers[id])))

Tables == [printers |-> printers, commands |-> commands]

\* The call runs to its return.
Invoke(id, c) ==
    LET prog == Prog(c, printers[id])
        t == Called(Tables, id, c, Len(prog))
    IN /\ Len(commands) + Creates(prog) <= MaxCmds
       /\ printers' = t.printers
       /\ commands' = t.commands
       /\ UNCHANGED <<th, base, ncalls>>

\* The call raises at statement k, a PrinterCommand.objects.create the
\* record store refuses: the statements before it have run, none after it.
InvokeFailing(id, c) ==
    LET prog == Prog(c, printers[id])
    IN \E k \in 1..Len(prog) :
          /\ prog[k].k = "create"
          /\ Len(commands) + Creates(prog) <= MaxCmds
          /\ LET t == Called(Tables, id, c, k - 1)
             IN /\ printers' = t.printers
                /\ commands' = t.commands
          /\ UNCHANGED <<th, base, ncalls>>

StartPrint(id, f) == Invoke(id, Call("set_current_print", f, FALSE))
StopPrint(id) == Invoke(id, Call("unset_current_print", NoFile, FALSE))
Resume(id, mute_alert) == Invoke(id, Call("resume_print", NoFile, mute_alert))
Pause(id) == Invoke(id, Call("pause_print", NoFile, FALSE))
PauseOnFailure(id) == Invoke(id, Call("pause_print_on_failure", NoFile, FALSE))
Cancel(id) == Invoke(id, Call("cancel_print", NoFile, FALSE))
RaiseAlert(id) == Invoke(id, Call("set_alert", NoFile, FALSE))
ClearAlert(id) == Invoke(id, Call("clear_alert", NoFile, FALSE))
EnqueueFails(id) == \E c \in Calls : InvokeFailing(id, c)

Next ==
    \E id \in Targets :
       \/ \E f \in Filenames \cup {NoFile} : StartPrint(id, f)
       \/ StopPrint(id)
       \/ \E b \in BOOLEAN : Resume(id, b)
       \/ Pause(id)
       \/ PauseOnFailure(id)
       \/ Cancel(id)
       \/ RaiseAlert(id)
       \/ ClearAlert(id)

Spec == Init /\ [][Next]_vars

\* The same caller, whose PrinterCommand.objects.create may fail.
NextFail ==
    \E id \in Targets :
       \/ StartPrint(id, "a.gcode")
       \/ RaiseAlert(id)
       \/ \E b \in BOOLEAN : Resume(id, b)
       \/ Pause(id)
       \/ PauseOnFailure(id)
       \/ Cancel(id)
       \/ EnqueueFails(id)

SpecFail == Init /\ [][NextFail]_vars

\* ------------------------------------------- two callers, statement by statement
\* Each caller loads its own copy of the Printer (Printer.objects.get), then
\* runs one method on it.  The assignments to the copy are the caller's own;
\* save(), the filter(...).update(...) and the create(...) are one statement
\* of the record store each, and the two callers' statements interleave.
\* A round is the calls begun before both callers have returned.

OtherStamps(a) == UNION {Stamps(th[b].self) : b \in Actors \ {a}}

Left(a) ==
    IF th[a].st = "run"
    THEN Cardinality({i \in th[a].pc..Len(th[a].prog) : th[a].prog[i].k = "create"})
    ELSE 0

\* Index of the first record-store statement of prog at or after i.
RECURSIVE NextDb(_, _)
NextDb(prog, i) == IF i >= Len(prog) \/ IsDb(prog[i]) THEN i ELSE NextDb(prog, i + 1)

Begin(a, id, c) ==
    LET self == printers[id]
        prog == Prog(c, self)
    IN /\ th[a].st = "idle"
       /\ ncalls < MaxCalls
       /\ Len(commands) + Creates(prog) + Left(1) + Left(2) <= MaxCmds
       /\ th' = [th EXCEPT ![a] =
                    [st |-> IF Len(prog) = 0 THEN "done" ELSE "run",
                     pc |-> 1, id |-> id, self |-> self, prog |-> prog, call |-> c,
                     made |-> <<>>]]
       /\ base' = IF \A b \in Actors : th[b].st = "idle" THEN printers ELSE base
       /\ ncalls' = ncalls + 1
       /\ UNCHANGED <<printers, commands>>

\* The caller's assignments up to its next record-store statement, and that
\* statement; made lists the commands the call has created, by position.
Step(a) ==
    /\ th[a].st = "run"
    /\ LET j == NextDb(th[a].prog, th[a].pc)
           m == Run([printers |-> printers, commands |-> commands, self |-> th[a].self],
                    th[a].prog, th[a].pc, j, th[a].id, OtherStamps(a))
       IN /\ printers' = m.printers
          /\ commands' = m.commands
          /\ th' = [th EXCEPT ![a].self = m.self,
                              ![a].pc = j + 1,
                              ![a].made = IF th[a].prog[j].k = "create"
                                          THEN Append(@, Len(m.commands)) ELSE @,
                              ![a].st = IF j >= Len(th[a].prog) THEN "done" ELSE "run"]
    /\ UNCHANGED <<base, ncalls>>

\* Both callers have returned: the round ends.
Finish ==
    /\ \A a \in Actors : th[a].st # "run"
    /\ \E a \in Actors : th[a].st = "done"
    /\ th' = [a \in Actors |-> Idle]
    /\ base' = printers
    /\ UNCHANGED <<printers, commands, ncalls>>

NextConc ==
    \/ \E a \in Actors, id \in Targets, c \in Calls : Begin(a, id, c)
    \/ \E a \in Actors : Step(a)
    \/ Finish

SpecConc == Init /\ [][NextConc]_vars

\* ------------------------------------------------- the agent of the Printer
\* The agent's only write to a command: PENDING -> SENT.
AgentSend ==
    \E i \in 1..Len(commands) :
       /\ commands[i].status = PENDING
       /\ commands' = [commands EXCEPT ![i].status = SENT]
       /\ UNCHANGED <<printers, th, base, ncalls>>

\* A caller's own printer.queue_octoprint_command(command, args, abort_existing).
Enqueue(id, command, args, abort_existing) ==
    LET prog == queue_octoprint_command(command, args, abort_existing)
        m == Run([printers |-> printers, commands |-> commands, self |-> printers[id]],
                 prog, 1, Len(prog), id, {})
    IN /\ Len(commands) + Creates(prog) <= MaxCmds
       /\ commands' = m.commands
       /\ UNCHANGED <<printers, th, base, ncalls>>

\* The methods that enqueue, the enqueue itself, and the agent.
NextAgent ==
    \/ \E id \in Targets :
          \/ Pause(id)
          \/ PauseOnFailure(id)
          \/ Cancel(id)
          \/ \E b \in BOOLEAN : Resume(id, b)
          \/ \E command \in {"pause", "resume"}, abort_existing \in BOOLEAN :
                Enqueue(id, command, NoArgs, abort_existing)
    \/ AgentSend

SpecAgent == Init /\ [][NextAgent]_vars

\* ------------------------------------------------------------- two Printers
\* One caller, whole methods: every method on the Printer under test, and on
\* the other Printer the methods that give it a print, an alert and a PENDING
\* command.  Both Printers keep the default pause policy.
InitIso ==
    /\ Init
    /\ \A p \in Printers : printers[p] = NewPrinter(TRUE, FALSE)

\* The calls on the Printer under test and on the other Printer.
IsoCalls == {c \in Calls : c.op = "set_current_print" => c.filename = "a.gcode"}

OtherCalls == {c \in IsoCalls : c.op \in {"set_current_print", "set_alert", "pause_print"}}

Fits(id, c) == Len(commands) + Creates(Prog(c, printers[id])) <= MaxIso

NextIso ==
    \/ \E id \in Targets, c \in IsoCalls : Fits(id, c) /\ Invoke(id, c)
    \/ \E p \in Printers \ Targets, c \in OtherCalls : Fits(p, c) /\ Invoke(p, c)

SpecIso == InitIso /\ [][NextIso]_vars


\* ================================================================== claims
Pending(cmds, id) ==
    {i \in 1..Len(cmds) : cmds[i].printer = id /\ cmds[i].status = PENDING}

\* A caller's step that ran the create of an enqueue, and that enqueue's flag.
Created(a) ==
    /\ th[a].st = "run"
    /\ th'[a].pc > th[a].pc
    /\ th[a].prog[th'[a].pc - 1].k = "create"

\* C1: right after an enqueue made with abort_existing=True has inserted its
\* command, the Printer has at most one PENDING command, whatever the
\* interleaving of the callers' statements.
C1_OnePendingAfterAbortingEnqueue ==
    [][\A a \in Actors :
          (Created(a) /\ th[a].prog[th'[a].pc - 1].abort_existing)
             => Cardinality(Pending(commands', th[a].id)) <= 1]_vars

\* C2: resume_print appends "restore_temps" then "resume" and leaves every
\* command that was PENDING before it PENDING.
C2_ResumeAbortsNothing ==
    [][\A id \in Targets, b \in BOOLEAN :
          Resume(id, b) =>
             /\ Len(commands') = Len(commands) + 2
             /\ commands'[Len(commands) + 1].cmd = "restore_temps"
             /\ commands'[Len(commands) + 2].cmd = "resume"
             /\ \A i \in 1..Len(commands) :
                   commands[i].status = PENDING => commands'[i].status = PENDING]_vars

IsNull(row, f) == IF f = "current_print_filename" THEN row[f] = NoFile ELSE row[f] = Null

\* C3 as claimed: the four print/alert fields of a Printer are all null or all
\* non-null.
C3_FourFieldsNullTogether ==
    \A id \in Targets :
       \/ \A f \in PrintFields : IsNull(printers[id], f)
       \/ \A f \in PrintFields : ~IsNull(printers[id], f)

\* C3 as amended: a Printer with a current_print_filename has a
\* current_print_started_at; current_print_alerted_at and alert_acknowledged_at
\* are null or not independently of the two.
C3_FilenameHasStartedAt ==
    \A id \in Targets :
       printers[id].current_print_filename # NoFile
          => printers[id].current_print_started_at # Null

\* A print is tracked, its alert raised and not acknowledged.
C3_Witness ==
    \E id \in Targets :
       /\ printers[id].current_print_filename # NoFile
       /\ printers[id].current_print_started_at # Null
       /\ printers[id].current_print_alerted_at # Null
       /\ printers[id].alert_acknowledged_at = Null

\* What an aborting enqueue does to the rows the table held: those of the
\* Printer that were PENDING are ABORTED, every other column and row is as
\* it was.
AbortedPrior(id) ==
    /\ Len(commands') >= Len(commands)
    /\ \A i \in 1..Len(commands) :
          commands'[i] =
             IF commands[i].printer = id /\ commands[i].status = PENDING
             THEN [commands[i] EXCEPT !.status = ABORTED]
             ELSE commands[i]

Last(cmds, n) == cmds[Len(cmds) - n]

\* C4: pause_print creates exactly one command, "pause", PENDING; every
\* command of the Printer that was PENDING is ABORTED; the new command is the
\* Printer's only PENDING one and the Printer rows are as they were.
C4_PauseSupersedes ==
    [][\A id \in Targets :
          Pause(id) =>
             /\ Len(commands') = Len(commands) + 1
             /\ Last(commands', 0) = PrinterCommand(id, "pause", NoArgs, PENDING)
             /\ AbortedPrior(id)
             /\ Pending(commands', id) = {Len(commands')}
             /\ printers' = printers]_vars

\* A pause that superseded a command, on a Printer whose heater policies
\* would have made pause_print_on_failure add set_temps.
C4_Witness ==
    \E id \in Targets :
       /\ printers[id].tools_off_on_pause
       /\ Len(commands) >= 2
       /\ Last(commands, 0) = PrinterCommand(id, "pause", NoArgs, PENDING)
       /\ Last(commands, 1).status = ABORTED
       /\ printers[id].current_print_filename # NoFile

\* C5: cancel_print on a Printer with PENDING commands changes each of them
\* to ABORTED, creates one PENDING "cancel" and sets alert_acknowledged_at.
C5_CancelSupersedesAndAcknowledges ==
    [][\A id \in Targets :
          (Cancel(id) /\ Pending(commands, id) # {}) =>
             /\ Len(commands') = Len(commands) + 1
             /\ Last(commands', 0) = PrinterCommand(id, "cancel", NoArgs, PENDING)
             /\ \A i \in Pending(commands, id) : commands'[i].status = ABORTED
             /\ printers'[id].alert_acknowledged_at # Null]_vars

\* The scenario of the claim: a pause, then the cancel.
C5_Witness ==
    \E id \in Targets :
       /\ Len(commands) = 2
       /\ commands[1] = PrinterCommand(id, "pause", NoArgs, ABORTED)
       /\ commands[2] = PrinterCommand(id, "cancel", NoArgs, PENDING)
       /\ printers[id].alert_acknowledged_at # Null

\* The commands pause_print_on_failure creates on the copy self.
OnFailureCommands(self, id) ==
    <<PrinterCommand(id, "pause", NoArgs, PENDING)>>
    \o (IF self.tools_off_on_pause
        THEN <<PrinterCommand(id, "set_temps", ToolsOff, PENDING)>> ELSE <<>>)
    \o (IF self.bed_off_on_pause
        THEN <<PrinterCommand(id, "set_temps", BedOff, PENDING)>> ELSE <<>>)

\* C6: pause_print_on_failure creates pause, set_temps(tools) if
\* tools_off_on_pause, set_temps(bed) if bed_off_on_pause, in that order; the
\* commands PENDING before are ABORTED and the created ones are all PENDING.
C6_PauseOnFailureStacks ==
    [][\A id \in Targets :
          PauseOnFailure(id) =>
             LET made == OnFailureCommands(printers[id], id)
             IN /\ Len(made) = 1 + (IF printers[id].tools_off_on_pause THEN 1 ELSE 0)
                                 + (IF printers[id].bed_off_on_pause THEN 1 ELSE 0)
                /\ Len(commands') = Len(commands) + Len(made)
                /\ SubSeq(commands', Len(commands) + 1, Len(commands')) = made
                /\ AbortedPrior(id)
                /\ Pending(commands', id) = (Len(commands) + 1)..Len(commands')]_vars

\* Both policies set: three commands PENDING at once, after a superseded one.
C6_Witness ==
    \E id \in Targets :
       /\ Len(commands) = 4
       /\ commands[1].status = ABORTED
       /\ SubSeq(commands, 2, 4) = <<PrinterCommand(id, "pause", NoArgs, PENDING),
                                     PrinterCommand(id, "set_temps", ToolsOff, PENDING),
                                     PrinterCommand(id, "set_temps", BedOff, PENDING)>>

\* C7: resume_print sets alert_acknowledged_at; unmuted it sets
\* current_print_alerted_at to null, muted it leaves it as it was.
C7_ResumeAcknowledges ==
    [][\A id \in Targets, b \in BOOLEAN :
          Resume(id, b) =>
             /\ printers'[id].alert_acknowledged_at # Null
             /\ ~b => printers'[id].current_print_alerted_at = Null
             /\ b => printers'[id].current_print_alerted_at
                        = printers[id].current_print_alerted_at]_vars

\* A raised alert, acknowledged by a muted resume.
C7_Witness ==
    \E id \in Targets :
       /\ printers[id].current_print_alerted_at # Null
       /\ printers[id].alert_acknowledged_at # Null
       /\ Len(commands) >= 2
       /\ Last(commands, 1).cmd = "restore_temps"
       /\ Last(commands, 0) = PrinterCommand(id, "resume", NoArgs, PENDING)

\* C8: a call whose PrinterCommand.objects.create fails leaves the Printer
\* rows and the status of every command as they were before the call.
C8_FailedEnqueueLeavesNothing ==
    [][\A id \in Targets :
          EnqueueFails(id) =>
             /\ printers' = printers
             /\ Len(commands') >= Len(commands)
             /\ \A i \in 1..Len(commands) : commands'[i].status = commands[i].status]_vars

AlertWithoutPrint(row) ==
    row.current_print_alerted_at # Null /\ row.current_print_filename = NoFile

\* C9: in a round of a set_alert call and a set_current_print or
\* unset_current_print call on the same Printer, no statement of the set_alert
\* caller, run while the table shows a print, leaves the row with
\* current_print_alerted_at set and current_print_filename null.
C9_NoAlertWithoutPrint ==
    [][\A a \in Actors, b \in Actors :
          (/\ a # b
           /\ th[a].st = "run" /\ th'[a].pc > th[a].pc
           /\ th[a].call.op = "set_alert"
           /\ th[b].st # "idle"
           /\ th[b].call.op \in {"set_current_print", "unset_current_print"}
           /\ th[b].id = th[a].id
           /\ printers[th[a].id].current_print_filename # NoFile)
             => ~AlertWithoutPrint(printers'[th[a].id])]_vars

FieldOps == {"set_current_print", "unset_current_print", "set_alert",
             "clear_alert", "resume_print", "cancel_print"}

\* The four print/alert fields up to the instants stored: the filename, and
\* which of the three timestamps are null.
Shape(row) ==
    <<row.current_print_filename, row.current_print_started_at = Null,
      row.current_print_alerted_at = Null, row.alert_acknowledged_at = Null>>

\* The Printer row after c1 then c2, each run to its return, from the table
\* the round began with.
Serial(id, c1, c2) ==
    Returned(Returned([printers |-> base, commands |-> <<>>], id, c1), id, c2).printers[id]

\* C10: when two calls of one round that write the print/alert fields of the
\* same Printer have both returned, the row holds what one of the two serial
\* orders of the calls leaves.
C10_Serializable ==
    \A a \in Actors, b \in Actors :
       (/\ a # b
        /\ th[a].st = "done" /\ th[b].st = "done"
        /\ th[a].id = th[b].id
        /\ th[a].call.op \in FieldOps /\ th[b].call.op \in FieldOps)
          => Shape(printers[th[a].id])
                \in {Shape(Serial(th[a].id, th[a].call, th[b].call)),
                     Shape(Serial(th[a].id, th[b].call, th[a].call))}

\* ------------------------------------------------------------------ C11
\* A step of the caller: a method of the Printer or an enqueue of its own.
PrinterStep ==
    \E id \in Targets :
       \/ \E c \in Calls : Invoke(id, c)
       \/ \E command \in {"pause", "resume"}, abort_existing \in BOOLEAN :
             Enqueue(id, command, NoArgs, abort_existing)

\* C11: over the Printer's methods and the agent's steps, no command is
\* deleted or rewritten, a new command is PENDING, a SENT or ABORTED command
\* keeps its status for ever, and a step of the Printer only appends PENDING
\* commands or turns PENDING commands into ABORTED ones.
C11_StatusMonotonic ==
    [][/\ Len(commands') >= Len(commands)
       /\ \A i \in 1..Len(commands) :
             /\ [commands'[i] EXCEPT !.status = PENDING]
                  = [commands[i] EXCEPT !.status = PENDING]
             /\ commands[i].status # PENDING
                  => commands'[i].status = commands[i].status
       /\ \A i \in (Len(commands) + 1)..Len(commands') :
             commands'[i].status = PENDING
       /\ PrinterStep =>
             \A i \in 1..Len(commands) :
                commands'[i].status \in {commands[i].status, ABORTED}]_vars

\* A SENT command that an aborting enqueue has passed over: it is followed by
\* an ABORTED command and by the PENDING command that superseded that one.
C11_Witness ==
    \E i \in 1..Len(commands), j \in 1..Len(commands), k \in 1..Len(commands) :
       /\ i < j /\ j < k
       /\ commands[i].status = SENT
       /\ commands[j].status = ABORTED
       /\ commands[k].status = PENDING

\* ------------------------------------------------------------------ C12
\* C12: queue_octoprint_command(command, abort_existing=False) appends one
\* PENDING command of the Printer and leaves every existing command, whether
\* PENDING, SENT or ABORTED, and every Printer row as it was.
C12_NonAbortingEnqueueAppends ==
    [][\A id \in Targets, command \in {"pause", "resume"} :
          Enqueue(id, command, NoArgs, FALSE)
             => /\ commands' = Append(commands, PrinterCommand(id, command, NoArgs, PENDING))
                /\ printers' = printers]_vars

\* A PENDING 'pause' appended behind a SENT, an ABORTED and a still PENDING
\* command: pause_print would have aborted the PENDING one.
C12_Witness ==
    /\ Len(commands) >= 4
    /\ Last(commands, 0).cmd = "pause" /\ Last(commands, 0).status = PENDING
    /\ Last(commands, 1).status = PENDING
    /\ \E i \in 1..Len(commands), j \in 1..Len(commands) :
          commands[i].status = SENT /\ commands[j].status = ABORTED

\* ------------------------------------------------------------------ C13
Alerted(row) == row.current_print_alerted_at # Null

\* The calls that reset current_print_alerted_at: resume_print unmuted,
\* clear_alert, set_current_print with another filename, unset_current_print
\* of a tracked print.
Clears(id) ==
    \/ Resume(id, FALSE)
    \/ ClearAlert(id)
    \/ \E f \in Filenames \cup {NoFile} :
          f # printers[id].current_print_filename /\ StartPrint(id, f)
    \/ printers[id].current_print_filename # NoFile /\ StopPrint(id)

\* C13 as stated: on an alerted Printer current_print_alerted_at becomes null
\* exactly on Resume, Cancel, ClearAlert or a StartPrint with a differing
\* filename.
C13_ClearedByAckOrStart ==
    [][\A id \in Targets :
          Alerted(printers[id])
             => (~Alerted(printers'[id])
                   <=> \/ \E b \in BOOLEAN : Resume(id, b)
                       \/ Cancel(id)
                       \/ ClearAlert(id)
                       \/ \E f \in Filenames \cup {NoFile} :
                             /\ f # printers[id].current_print_filename
                             /\ StartPrint(id, f))]_vars

\* C13, amended: on an alerted Printer current_print_alerted_at becomes null
\* exactly on an unmuted Resume, ClearAlert, a StartPrint with a differing
\* filename or a StopPrint of a tracked print; Cancel and a muted Resume
\* record the acknowledgment and leave it set.
C13_ClearedExactlyBy ==
    [][\A id \in Targets :
          Alerted(printers[id]) => (~Alerted(printers'[id]) <=> Clears(id))]_vars

\* An alert that a Cancel has acknowledged and not cleared.
C13_Witness ==
    \E id \in Targets :
       /\ Alerted(printers[id])
       /\ printers[id].alert_acknowledged_at # Null
       /\ printers[id].current_print_filename # NoFile
       /\ Len(commands) > 0
       /\ Last(commands, 0).cmd = "cancel"

\* ------------------------------------------------------------------ C14
\* The tables after set_current_print(f) has returned on Printer id of t.
AfterStart(t, id, f) == Returned(t, id, Call("set_current_print", f, FALSE))

\* C14: in every state set_current_print(f) with f the Printer's current
\* filename returns leaving the Printer rows and the commands as they are,
\* and for any f a second set_current_print(f) leaves what the first left.
C14_SameFilenameIsNoOp ==
    \A id \in Targets :
       /\ AfterStart(Tables, id, printers[id].current_print_filename) = Tables
       /\ \A f \in Filenames \cup {NoFile} :
             AfterStart(AfterStart(Tables, id, f), id, f) = AfterStart(Tables, id, f)

\* A tracked print with a raised alert and a PENDING command, on which
\* set_current_print of the same filename returns changing nothing.
C14_Witness ==
    \E id \in Targets :
       /\ printers[id].current_print_filename \in Filenames
       /\ Alerted(printers[id])
       /\ Pending(commands, id) # {}
       /\ AfterStart(Tables, id, printers[id].current_print_filename) = Tables

\* ------------------------------------------------------------------ C15
\* Every instant stored in a Printer row.
Stored == UNION {Stamps(printers[p]) : p \in Printers}

\* C15: set_current_print(g) on a Printer whose filename is not g, alerted,
\* acknowledged or neither, sets the filename to g and started_at to an instant
\* stored nowhere before, resets alerted_at and acknowledged_at to null, and
\* leaves the pause policy, the other Printers and every command as they were.
C15_StartPrintResets ==
    [][\A id \in Targets, g \in Filenames \cup {NoFile} :
          (g # printers[id].current_print_filename /\ StartPrint(id, g))
             => /\ printers'[id] =
                      [printers[id] EXCEPT
                          !.current_print_filename = g,
                          !.current_print_started_at = printers'[id].current_print_started_at,
                          !.current_print_alerted_at = Null,
                          !.alert_acknowledged_at = Null]
                /\ printers'[id].current_print_started_at # Null
                /\ printers'[id].current_print_started_at \notin Stored
                /\ \A p \in Printers \ {id} : printers'[p] = printers[p]
                /\ commands' = commands]_vars

\* A print started while the row held two other instants (the previous
\* started_at and an alert or acknowledgment): its started_at is the third
\* instant and both alert fields are null again.
C15_Witness ==
    \E id \in Targets :
       /\ printers[id].current_print_filename \in Filenames
       /\ printers[id].current_print_started_at = 3
       /\ printers[id].current_print_alerted_at = Null
       /\ printers[id].alert_acknowledged_at = Null

\* ------------------------------------------------------------------ C16
\* C16: set_alert, from any state and again on a Printer that is alerting
\* already, sets alerted_at to an instant stored nowhere before and
\* acknowledged_at to null, and leaves the filename, started_at, the pause
\* policy, the other Printers and every command as they were.
C16_RaiseAlertSetsAlert ==
    [][\A id \in Targets :
          RaiseAlert(id)
             => /\ printers'[id] =
                      [printers[id] EXCEPT
                          !.current_print_alerted_at = printers'[id].current_print_alerted_at,
                          !.alert_acknowledged_at = Null]
                /\ printers'[id].current_print_alerted_at # Null
                /\ printers'[id].current_print_alerted_at \notin Stored
                /\ \A p \in Printers \ {id} : printers'[p] = printers[p]
                /\ commands' = commands]_vars

\* An alert raised on a tracked print whose row already held a second
\* instant, an earlier alert or an acknowledgment: alerted_at is the third
\* instant and acknowledged_at is null.
C16_Witness ==
    \E id \in Targets :
       /\ printers[id].current_print_filename \in Filenames
       /\ printers[id].current_print_started_at = 1
       /\ printers[id].current_print_alerted_at = 3
       /\ printers[id].alert_acknowledged_at = Null

\* ------------------------------------------------------------------ C17
\* C17: unset_current_print on a Printer that tracks a print sets filename,
\* started_at, alerted_at and acknowledged_at to null and leaves the pause
\* policy, the other Printers and every command, PENDING ones included, as
\* they were.
C17_StopPrintClears ==
    [][\A id \in Targets :
          (printers[id].current_print_filename # NoFile /\ StopPrint(id))
             => /\ printers'[id] =
                      [printers[id] EXCEPT
                          !.current_print_filename = NoFile,
                          !.current_print_started_at = Null,
                          !.current_print_alerted_at = Null,
                          !.alert_acknowledged_at = Null]
                /\ \A p \in Printers \ {id} : printers'[p] = printers[p]
                /\ commands' = commands]_vars

\* A Printer with the four fields null whose last command is a PENDING
\* 'cancel': cancel_print set acknowledged_at, and only unset_current_print
\* of a tracked print leaves it null together with started_at.
C17_Witness ==
    \E id \in Targets :
       /\ \A f \in PrintFields : IsNull(printers[id], f)
       /\ Len(commands) > 0
       /\ Last(commands, 0).cmd = "cancel"
       /\ Last(commands, 0).status = PENDING

\* ------------------------------------------------------------------ C18
\* C18: in every reachable state, with set_current_print called on any
\* filename, None included, current_print_filename is null if and only if
\* current_print_started_at is null.
C18_FilenameIffStartedAt ==
    \A id \in Targets :
       IsNull(printers[id], "current_print_filename")
          <=> IsNull(printers[id], "current_print_started_at")

\* ------------------------------------------------------------------ C19
\* C19: the commands one pause_print_on_failure call has created so far stand
\* next to each other in the table, and none of its set_temps commands is
\* PENDING while its pause is ABORTED, whatever the other caller runs.
C19_OnFailureCommandsStayTogether ==
    \A a \in Actors :
       th[a].call.op = "pause_print_on_failure"
          => \A k \in 2..Len(th[a].made) :
                /\ th[a].made[k] = th[a].made[k - 1] + 1
                /\ commands[th[a].made[k]].status = PENDING
                     => commands[th[a].made[1]].status # ABORTED

\* ------------------------------------------------------------------ C20
\* C20: a method called on one Printer, its aborting enqueues included,
\* leaves every other Printer's row and every other Printer's commands, their
\* status and their number, as they were.
C20_DeviceIsolation ==
    [][\A id \in Targets :
          (\E c \in IsoCalls : Invoke(id, c))
             => \A p \in Printers \ {id} :
                   /\ printers'[p] = printers[p]
                   /\ \A i \in 1..Len(commands) :
                         commands[i].printer = p => commands'[i] = commands[i]
                   /\ \A i \in (Len(commands) + 1)..Len(commands') :
                         commands'[i].printer # p]_vars

\* Printer B is alerted and has a PENDING command, and behind it stands the
\* command of an aborting enqueue of Printer A.
C20_Witness ==
    \E i \in 1..Len(commands), j \in 1..Len(commands) :
       /\ i < j
       /\ commands[i].printer = "B" /\ commands[i].status = PENDING
       /\ commands[j].printer = "A" /\ commands[j].cmd \in {"pause", "cancel"}
       /\ Alerted(printers["B"])

=============================================================================
